---- MODULE Spec2Model ----
(***************************************************************************)
(* The IoT device manager: src/src/devices.py (the device classes) and     *)
(* src/src/controller.py (the producers, the batch collector of main, the  *)
(* storage worker thread and the shutdown handler).                        *)
(*                                                                         *)
(* Python values are modelled with their type, because the controller      *)
(* discriminates on isinstance: a float is [kind |-> "float", val |-> n],  *)
(* an int is [kind |-> "int", val |-> n], None is [kind |-> "none"].  The  *)
(* unit of a modelled float is one whole degree (or one percent).          *)
(* A dict (a raw update) is a record; **kwargs is a set of <<key, value>>  *)
(* pairs.  datetime.now() is the logical clock `now`, which advances each  *)
(* time a producer wakes from its sleep.                                   *)
(***************************************************************************)
EXTENDS Integers, Sequences, FiniteSets, TLC

VARIABLES
    devices,         \* main: the list `devices` (a sequence of device objects)
    tasks,           \* main: `tasks`, the state of each producer task
    update_queue,    \* main: `update_queue`, the Update Channel
    update_batch,    \* main: `update_batch`, the batch buffer
    mapped_updates,  \* main: `mapped_updates` of the latest cycle
    critical_events, \* main: `critical_events` of the latest cycle
    avg_temp,        \* main: `avg_temp` of the latest cycle, [total, count]
    store_idx,       \* main: position of the loop of line 258 in update_batch
    main_pc,         \* main: where the coroutine stands
    storage_queue,   \* main: `storage_queue`, the durable-write queue
    worker_pc,       \* storage_worker: where the thread stands
    worker_update,   \* storage_worker: its local `update`
    history_log,     \* the entries storage_worker appended to history.log
    error_log,       \* the updates whose write failed (logger.error, line 68)
    now,             \* datetime.now(): the logical clock
    logged,          \* main: what the latest cycle sent to the logger
    call,            \* the latest execute_command call and what it returned
    probe            \* the argument and result of the latest pure-function call

vars == <<devices, tasks, update_queue, update_batch, mapped_updates,
          critical_events, avg_temp, store_idx, main_pc, storage_queue,
          worker_pc, worker_update, history_log, error_log, now, logged, call,
          probe>>

pipeline_vars == <<tasks, update_queue, update_batch, mapped_updates,
                   critical_events, avg_temp, store_idx, main_pc,
                   storage_queue, worker_pc, worker_update, history_log,
                   error_log, now, logged>>

(***************************************************************************)
(* Bounds of the model.                                                    *)
(***************************************************************************)
\* Producer wake-ups (and so raw updates) in one run of the pipeline.
MaxUpdates == 2
\* Producer wake-ups in the run that floods the Update Channel.
MaxFlood == 12
\* Failing writes of the storage worker in one run.
MaxWriteFailures == 1
\* The sampled temperatures a producer can draw are the multiples of TempStep.
TempStep == 8
\* The sampled humidities a producer can draw are the multiples of HumStep.
HumStep == 5
\* How far the arguments of commands and constructors go outside [0, 100].
MaxOver == 2
\* The length of the batches the analytics functions are applied to.
MaxBatch == 4
\* The length of the batches the reactions are applied to.
MaxEvents == 2

(***************************************************************************)
(* Python values.                                                          *)
(***************************************************************************)
PyInt(n) == [kind |-> "int", val |-> n]
PyFloat(n) == [kind |-> "float", val |-> n]
PyBool(b) == [kind |-> "bool", val |-> b]
PyNone == [kind |-> "none"]

\* bool(v): the truth value of a Python value
bool(v) ==
    IF v.kind = "bool" THEN v.val
    ELSE IF v.kind = "none" THEN FALSE
    ELSE v.val # 0

isinstance_float(v) == v.kind = "float"
isinstance_int(v) == v.kind = "int"

Max(a, b) == IF a >= b THEN a ELSE b
Min(a, b) == IF a <= b THEN a ELSE b

\* dict.get(key, default)
DictGet(d, key, default) == IF key \in DOMAIN d THEN d[key] ELSE default

\* dict.update(other): the keys of `other` are added or overwritten
DictUpdate(d, other) ==
    [k \in DOMAIN d \cup DOMAIN other |-> IF k \in DOMAIN other THEN other[k] ELSE d[k]]

\* `key in kwargs` and kwargs[key]
HasKey(kwargs, key) == \E p \in kwargs : p[1] = key
KwGet(kwargs, key) == (CHOOSE p \in kwargs : p[1] = key)[2]

(***************************************************************************)
(* src/src/devices.py                                                      *)
(***************************************************************************)
SmartDevice(device_id, name, location) ==
    [device_id |-> device_id, name |-> name, location |-> location,
     device_type |-> "GENERIC", connected |-> FALSE]

\* (a mutant) the property answers True whatever the connection status
is_connected_always(self) == TRUE

\* the property is_connected
is_connected(self) == self.connected

connect(self) == [self EXCEPT !.connected = TRUE]

SmartDevice_send_update(self) ==
    [device_id |-> self.device_id, name |-> self.name, location |-> self.location,
     device_type |-> self.device_type, connected |-> self.connected]

SmartBulb(device_id, name, location) ==
    DictUpdate(SmartDevice(device_id, name, location),
               [device_type |-> "BULB", is_on |-> FALSE, brightness |-> PyInt(0)])

\* (a mutant) the upper bound of the range is not enforced
_set_brightness_no_upper(self, value) ==
    IF value.val < 0 THEN [self EXCEPT !.brightness = PyInt(0)]
    ELSE [self EXCEPT !.brightness = value]

_set_brightness(self, value) ==
    IF value.val < 0 THEN [self EXCEPT !.brightness = PyInt(0)]
    ELSE IF value.val > 100 THEN [self EXCEPT !.brightness = PyInt(100)]
    ELSE [self EXCEPT !.brightness = value]

\* (a mutant) set_brightness without its argument switches the bulb off
SmartBulb_execute_command_resets(self, command, kwargs) ==
    IF command = "turn_on" THEN
        [self |-> [self EXCEPT !.is_on = TRUE], ret |-> TRUE]
    ELSE IF command = "turn_off" THEN
        [self |-> [self EXCEPT !.is_on = FALSE, !.brightness = PyInt(0)], ret |-> TRUE]
    ELSE IF command = "set_brightness" THEN
        IF HasKey(kwargs, "brightness") THEN
            LET brightness == KwGet(kwargs, "brightness")
                set == _set_brightness(self, brightness)
            IN  [self |-> IF brightness.val > 0 THEN [set EXCEPT !.is_on = TRUE] ELSE set,
                 ret |-> TRUE]
        ELSE [self |-> [self EXCEPT !.is_on = FALSE, !.brightness = PyInt(0)], ret |-> FALSE]
    ELSE [self |-> self, ret |-> FALSE]

\* (a mutant) turn_off leaves the brightness as it is
SmartBulb_execute_command_keeps_brightness(self, command, kwargs) ==
    IF command = "turn_on" THEN
        [self |-> [self EXCEPT !.is_on = TRUE], ret |-> TRUE]
    ELSE IF command = "turn_off" THEN
        [self |-> [self EXCEPT !.is_on = FALSE], ret |-> TRUE]
    ELSE IF command = "set_brightness" THEN
        IF HasKey(kwargs, "brightness") THEN
            LET brightness == KwGet(kwargs, "brightness")
                set == _set_brightness(self, brightness)
            IN  [self |-> IF brightness.val > 0 THEN [set EXCEPT !.is_on = TRUE] ELSE set,
                 ret |-> TRUE]
        ELSE [self |-> self, ret |-> FALSE]
    ELSE [self |-> self, ret |-> FALSE]

\* execute_command returns the pair (the object after the call, the result)
SmartBulb_execute_command(self, command, kwargs) ==
    IF command = "turn_on" THEN
        [self |-> [self EXCEPT !.is_on = TRUE], ret |-> TRUE]
    ELSE IF command = "turn_off" THEN
        [self |-> [self EXCEPT !.is_on = FALSE, !.brightness = PyInt(0)], ret |-> TRUE]
    ELSE IF command = "set_brightness" THEN
        IF HasKey(kwargs, "brightness") THEN
            LET brightness == KwGet(kwargs, "brightness")
                set == _set_brightness(self, brightness)
            IN  [self |-> IF brightness.val > 0 THEN [set EXCEPT !.is_on = TRUE] ELSE set,
                 ret |-> TRUE]
        ELSE [self |-> self, ret |-> FALSE]
    ELSE [self |-> self, ret |-> FALSE]

SmartBulb_send_update(self) ==
    DictUpdate(SmartDevice_send_update(self),
               [is_on |-> self.is_on, brightness |-> self.brightness])

SmartThermostat(device_id, name, location, current_temp, target_temp, humidity) ==
    DictUpdate(SmartDevice(device_id, name, location),
               [device_type |-> "THERMOSTAT", current_temp |-> current_temp,
                target_temp |-> target_temp, humidity |-> humidity])

SmartThermostat_execute_command(self, command, kwargs) ==
    IF command = "set_target_temp" THEN
        IF HasKey(kwargs, "temperature")
        THEN [self |-> [self EXCEPT !.target_temp = KwGet(kwargs, "temperature")], ret |-> TRUE]
        ELSE [self |-> self, ret |-> FALSE]
    ELSE IF command = "update_temp" THEN
        IF HasKey(kwargs, "temperature")
        THEN [self |-> [self EXCEPT !.current_temp = KwGet(kwargs, "temperature")], ret |-> TRUE]
        ELSE [self |-> self, ret |-> FALSE]
    ELSE IF command = "update_humidity" THEN
        IF HasKey(kwargs, "humidity")
        THEN [self |-> [self EXCEPT !.humidity = KwGet(kwargs, "humidity")], ret |-> TRUE]
        ELSE [self |-> self, ret |-> FALSE]
    ELSE [self |-> self, ret |-> FALSE]

SmartThermostat_send_update(self) ==
    DictUpdate(SmartDevice_send_update(self),
               [current_temp |-> self.current_temp, target_temp |-> self.target_temp,
                humidity |-> self.humidity])

SmartCamera(device_id, name, location, battery_level) ==
    DictUpdate(SmartDevice(device_id, name, location),
               [device_type |-> "CAMERA", motion_detected |-> FALSE,
                battery_level |-> PyInt(Max(0, Min(100, battery_level.val))),
                last_snapshot |-> PyNone])

_set_battery_level(self, value) ==
    IF value.val < 0 THEN [self EXCEPT !.battery_level = PyInt(0)]
    ELSE IF value.val > 100 THEN [self EXCEPT !.battery_level = PyInt(100)]
    ELSE [self EXCEPT !.battery_level = value]

\* `at` is datetime.now() at the time of the call
SmartCamera_execute_command(self, command, kwargs, at) ==
    IF command = "take_snapshot" THEN
        [self |-> [self EXCEPT !.last_snapshot = PyInt(at)], ret |-> TRUE]
    ELSE IF command = "set_motion_detected" THEN
        IF HasKey(kwargs, "motion")
        THEN [self |-> [self EXCEPT !.motion_detected = bool(KwGet(kwargs, "motion"))], ret |-> TRUE]
        ELSE [self |-> self, ret |-> FALSE]
    ELSE IF command = "set_battery_level" THEN
        IF HasKey(kwargs, "battery_level")
        THEN [self |-> _set_battery_level(self, KwGet(kwargs, "battery_level")), ret |-> TRUE]
        ELSE [self |-> self, ret |-> FALSE]
    ELSE [self |-> self, ret |-> FALSE]

SmartCamera_send_update(self) ==
    DictUpdate(SmartDevice_send_update(self),
               [motion_detected |-> self.motion_detected,
                battery_level |-> self.battery_level,
                last_snapshot |-> self.last_snapshot])

\* The dispatch of the two polymorphic methods on the object's class.
execute_command(self, command, kwargs, at) ==
    IF self.device_type = "BULB" THEN SmartBulb_execute_command(self, command, kwargs)
    ELSE IF self.device_type = "THERMOSTAT" THEN SmartThermostat_execute_command(self, command, kwargs)
    ELSE SmartCamera_execute_command(self, command, kwargs, at)

send_update(self) ==
    IF self.device_type = "BULB" THEN SmartBulb_send_update(self)
    ELSE IF self.device_type = "THERMOSTAT" THEN SmartThermostat_send_update(self)
    ELSE SmartCamera_send_update(self)

(***************************************************************************)
(* src/src/controller.py: the constants and the pure functions             *)
(***************************************************************************)
TEMP_THRESHOLD == 30
COOLING_TARGET == 25
batch_size == 10

DeviceUpdate(device_id, timestamp, value) ==
    [device_id |-> device_id, timestamp |-> timestamp, value |-> value]

map_to_device_update(raw_data) ==
    LET device_id == DictGet(raw_data, "device_id", "")
        timestamp == DictGet(raw_data, "timestamp", "")
        device_type == DictGet(raw_data, "device_type", "")
        value == IF device_type = "BULB" THEN DictGet(raw_data, "brightness", PyInt(0))
                 ELSE IF device_type = "THERMOSTAT" THEN DictGet(raw_data, "current_temp", PyFloat(0))
                 ELSE IF device_type = "CAMERA" THEN DictGet(raw_data, "battery_level", PyInt(0))
                 ELSE PyNone
    IN  DeviceUpdate(device_id, timestamp, value)

\* (a mutant) the temperature threshold itself counts as high
filter_critical_events_inclusive(update) ==
    IF isinstance_float(update.value) /\ update.value.val >= TEMP_THRESHOLD THEN TRUE
    ELSE IF isinstance_int(update.value) /\ update.value.val < 10 THEN TRUE
    ELSE FALSE

filter_critical_events(update) ==
    IF isinstance_float(update.value) /\ update.value.val > TEMP_THRESHOLD THEN TRUE
    ELSE IF isinstance_int(update.value) /\ update.value.val < 10 THEN TRUE
    ELSE FALSE

\* reduce(reducer, thermostat_updates, (0, 0.0)): the pair (count, total)
RECURSIVE reduce_reducer(_, _)
reduce_reducer(thermostat_updates, acc) ==
    IF thermostat_updates = <<>> THEN acc
    ELSE CHOOSE result \in
             {reduce_reducer(Tail(thermostat_updates), next) :
                 next \in {[count |-> acc.count + 1,
                            total |-> acc.total + Head(thermostat_updates).value.val]}} : TRUE

\* (a mutant) the total is divided by the number of all the records
calculate_average_temperature_all_records(updates) ==
    LET is_thermostat(u) == isinstance_float(u.value)
        thermostat_updates == SelectSeq(updates, is_thermostat)
        acc == reduce_reducer(thermostat_updates, [count |-> 0, total |-> 0])
    IN  IF thermostat_updates = <<>> THEN [total |-> 0, count |-> 1]
        ELSE [total |-> acc.total, count |-> Len(updates)]

\* The float returned is the exact quotient total / count, kept as the pair.
calculate_average_temperature(updates) ==
    LET is_thermostat(u) == isinstance_float(u.value)
        thermostat_updates == SelectSeq(updates, is_thermostat)
        acc == reduce_reducer(thermostat_updates, [count |-> 0, total |-> 0])
    IN  IF thermostat_updates = <<>> THEN [total |-> 0, count |-> 1]
        ELSE IF acc.count > 0 THEN acc
        ELSE [total |-> 0, count |-> 1]

\* line 254: avg_temp > 0
avg_temp_positive(avg) == avg.total > 0

(***************************************************************************)
(* src/src/controller.py: device_update_stream, one producer per device    *)
(***************************************************************************)
\* random.uniform(-3.0, 5.0), plus random.uniform(3.0, 8.0) when the spike is
\* drawn: the sampled values n of
\*   current_temp + (target_temp - current_temp) * 0.1 + variation [+ spike]
drawn_temperatures(current_temp, target_temp) ==
    LET base10 == 9 * current_temp + target_temp
        in_range(n, lo, hi) == base10 + 10 * lo <= 10 * n /\ 10 * n <= base10 + 10 * hi
    IN  {n \in ((base10 - 30) \div 10)..((base10 + 130) \div 10 + 1) :
            /\ n % TempStep = 0
            /\ \/ in_range(n, -3, 5)
               \/ in_range(n, -3 + 3, 5 + 8)}

\* max(0.0, min(100.0, current_humidity + random.uniform(-3.0, 3.0))), sampled
drawn_humidities(current_humidity) ==
    {Max(0, Min(100, h)) : h \in {n \in (current_humidity - 3)..(current_humidity + 3) :
                                     n % HumStep = 0}}

\* One iteration of the loop of device_update_stream for devices[i], from the
\* end of its sleep to the next one.  It runs only while main is suspended.
device_update_stream(i, max_wakeups) ==
    /\ main_pc = "sleep"
    /\ tasks[i] = "running"
    /\ now < max_wakeups
    /\ now' = now + 1
    /\ LET device == devices[i] IN
       IF is_connected(device) THEN
           \E new_temp \in IF device.device_type = "THERMOSTAT"
                            THEN drawn_temperatures(device.current_temp.val, device.target_temp.val)
                            ELSE {0} :
           \E new_humidity \in IF device.device_type = "THERMOSTAT"
                                THEN drawn_humidities(device.humidity.val)
                                ELSE {0} :
               LET drifted ==
                       IF device.device_type = "THERMOSTAT" THEN
                           LET d1 == execute_command(device, "update_temp",
                                         {<<"temperature", PyFloat(new_temp)>>}, now').self
                           IN  execute_command(d1, "update_humidity",
                                   {<<"humidity", PyFloat(new_humidity)>>}, now').self
                       ELSE device
                   update == DictUpdate(send_update(drifted), [timestamp |-> now'])
               IN  /\ devices' = [devices EXCEPT ![i] = drifted]
                   /\ update_queue' = Append(update_queue, update)
       ELSE UNCHANGED <<devices, update_queue>>
    /\ UNCHANGED <<tasks, update_batch, mapped_updates, critical_events, avg_temp,
                   store_idx, main_pc, storage_queue, worker_pc, worker_update,
                   history_log, error_log, logged, call, probe>>

(***************************************************************************)
(* src/src/controller.py: storage_worker, the daemon thread                *)
(***************************************************************************)
\* The thread runs until the process exits (daemon=True, never joined).
process_alive == main_pc # "exited"

\* queue.get() returns an update
storage_worker_get ==
    /\ process_alive
    /\ worker_pc = "get"
    /\ storage_queue # <<>>
    /\ Head(storage_queue) # PyNone
    /\ worker_update' = Head(storage_queue)
    /\ storage_queue' = Tail(storage_queue)
    /\ worker_pc' = "write"
    /\ UNCHANGED <<devices, tasks, update_queue, update_batch, mapped_updates,
                   critical_events, avg_temp, store_idx, main_pc, history_log,
                   error_log, now, logged, call, probe>>

\* queue.get() returns None: break
storage_worker_stop ==
    /\ process_alive
    /\ worker_pc = "get"
    /\ storage_queue # <<>>
    /\ Head(storage_queue) = PyNone
    /\ worker_update' = PyNone
    /\ storage_queue' = Tail(storage_queue)
    /\ worker_pc' = "done"
    /\ UNCHANGED <<devices, tasks, update_queue, update_batch, mapped_updates,
                   critical_events, avg_temp, store_idx, main_pc, history_log,
                   error_log, now, logged, call, probe>>

\* lines 57-64: the entry is appended to the file.  The entry's own timestamp
\* (the time of the write) is left out: nothing reads it.
storage_worker_write ==
    /\ process_alive
    /\ worker_pc = "write"
    /\ history_log' = Append(history_log, [update |-> worker_update])
    /\ worker_pc' = "get"
    /\ UNCHANGED <<devices, tasks, update_queue, update_batch, mapped_updates,
                   critical_events, avg_temp, store_idx, main_pc, storage_queue,
                   worker_update, error_log, now, logged, call, probe>>

\* (a mutant) the exception ends the loop of the worker
storage_worker_write_fails_dies ==
    /\ process_alive
    /\ worker_pc = "write"
    /\ Len(error_log) < MaxWriteFailures
    /\ error_log' = Append(error_log, worker_update)
    /\ worker_pc' = "done"
    /\ UNCHANGED <<devices, tasks, update_queue, update_batch, mapped_updates,
                   critical_events, avg_temp, store_idx, main_pc, storage_queue,
                   worker_update, history_log, now, logged, call, probe>>

\* open() or write() raises: the exception is logged and the loop goes on
storage_worker_write_fails ==
    /\ process_alive
    /\ worker_pc = "write"
    /\ Len(error_log) < MaxWriteFailures
    /\ error_log' = Append(error_log, worker_update)
    /\ worker_pc' = "get"
    /\ UNCHANGED <<devices, tasks, update_queue, update_batch, mapped_updates,
                   critical_events, avg_temp, store_idx, main_pc, storage_queue,
                   worker_update, history_log, now, logged, call, probe>>

(***************************************************************************)
(* src/src/controller.py: main                                             *)
(***************************************************************************)
\* lines 188-199: the devices of main, each connected
main_devices ==
    LET constructed ==
            << SmartBulb("bulb_01", "Living Room Light", "Living Room"),
               SmartBulb("bulb_02", "Bedroom Light", "Bedroom"),
               SmartThermostat("thermo_01", "Main Thermostat", "Living Room",
                               PyFloat(28), PyFloat(24), PyFloat(45)),
               SmartThermostat("thermo_02", "Bedroom Thermostat", "Bedroom",
                               PyFloat(27), PyFloat(25), PyFloat(50)),
               SmartCamera("cam_01", "Front Door Camera", "Entrance", PyInt(85)),
               SmartCamera("cam_02", "Backyard Camera", "Garden", PyInt(5)) >>
    IN  [i \in DOMAIN constructed |-> connect(constructed[i])]

\* (a mutant) the cooling aims at the threshold instead of the cooling target
react_cools_to_threshold(device, event) ==
    IF device.device_type = "THERMOSTAT" /\ isinstance_float(event.value)
       /\ event.value.val > TEMP_THRESHOLD THEN
        LET current_temp == device.current_temp.val
            cooling_amount == Max(5, current_temp - TEMP_THRESHOLD)
            new_temp == current_temp - cooling_amount
            capped == IF new_temp >= TEMP_THRESHOLD THEN TEMP_THRESHOLD - 2 ELSE new_temp
            d1 == execute_command(device, "update_temp",
                                  {<<"temperature", PyFloat(capped)>>}, now).self
            d2 == execute_command(d1, "set_target_temp",
                                  {<<"temperature", PyFloat(COOLING_TARGET)>>}, now).self
        IN  [device |-> d2,
             lines |-> << [level |-> "warning", what |-> "high_temp", device_id |-> device.device_id],
                          [level |-> "info", what |-> "temperature_adjusted", device_id |-> device.device_id] >>]
    ELSE IF device.device_type = "CAMERA" /\ isinstance_int(event.value)
            /\ event.value.val < 10 THEN
        [device |-> device,
         lines |-> << [level |-> "warning", what |-> "battery_low", device_id |-> device.device_id] >>]
    ELSE [device |-> device, lines |-> << >>]

\* (a mutant) the cooling amount is always the minimum of 5 degrees
react_cools_by_five(device, event) ==
    IF device.device_type = "THERMOSTAT" /\ isinstance_float(event.value)
       /\ event.value.val > TEMP_THRESHOLD THEN
        LET new_temp == device.current_temp.val - 5
            capped == IF new_temp >= TEMP_THRESHOLD THEN TEMP_THRESHOLD - 2 ELSE new_temp
            d1 == execute_command(device, "update_temp",
                                  {<<"temperature", PyFloat(capped)>>}, now).self
            d2 == execute_command(d1, "set_target_temp",
                                  {<<"temperature", PyFloat(COOLING_TARGET)>>}, now).self
        IN  [device |-> d2,
             lines |-> << [level |-> "warning", what |-> "high_temp", device_id |-> device.device_id],
                          [level |-> "info", what |-> "temperature_adjusted", device_id |-> device.device_id] >>]
    ELSE [device |-> device, lines |-> << >>]

\* lines 235-250: what the body of the two loops does to `device` for `event`;
\* the pair (the device after it, the lines logged)
react(device, event) ==
    IF device.device_type = "THERMOSTAT" /\ isinstance_float(event.value)
       /\ event.value.val > TEMP_THRESHOLD THEN
        LET current_temp == device.current_temp.val
            cooling_amount == Max(5, current_temp - COOLING_TARGET)
            new_temp == current_temp - cooling_amount
            capped == IF new_temp >= TEMP_THRESHOLD THEN TEMP_THRESHOLD - 2 ELSE new_temp
            d1 == execute_command(device, "update_temp",
                                  {<<"temperature", PyFloat(capped)>>}, now).self
            d2 == execute_command(d1, "set_target_temp",
                                  {<<"temperature", PyFloat(COOLING_TARGET)>>}, now).self
        IN  [device |-> d2,
             lines |-> << [level |-> "warning", what |-> "high_temp", device_id |-> device.device_id],
                          [level |-> "info", what |-> "temperature_adjusted", device_id |-> device.device_id] >>]
    ELSE IF device.device_type = "CAMERA" /\ isinstance_int(event.value)
            /\ event.value.val < 10 THEN
        [device |-> device,
         lines |-> << [level |-> "warning", what |-> "battery_low", device_id |-> device.device_id] >>]
    ELSE [device |-> device, lines |-> << >>]

\* (a mutant) the device_id of the event is not compared
RECURSIVE react_devices_any_id(_, _, _, _)
react_devices_any_id(devs, lines, event, i) ==
    IF i > Len(devs) THEN [devices |-> devs, lines |-> lines]
    ELSE CHOOSE result \in
            {react_devices_any_id(s.devices, s.lines, event, i + 1) :
                s \in {[devices |-> [devs EXCEPT ![i] = r.device], lines |-> lines \o r.lines] :
                          r \in {react(devs[i], event)}}} : TRUE

\* lines 233-250: the inner loop over the devices, for one event (each
\* intermediate value is bound from a singleton set, so it is computed once)
RECURSIVE react_devices(_, _, _, _)
react_devices(devs, lines, event, i) ==
    IF i > Len(devs) THEN [devices |-> devs, lines |-> lines]
    ELSE IF devs[i].device_id = event.device_id THEN
        CHOOSE result \in
            {react_devices(s.devices, s.lines, event, i + 1) :
                s \in {[devices |-> [devs EXCEPT ![i] = r.device], lines |-> lines \o r.lines] :
                          r \in {react(devs[i], event)}}} : TRUE
    ELSE react_devices(devs, lines, event, i + 1)

\* lines 232-250: the outer loop over the critical events
RECURSIVE react_events(_, _, _)
react_events(devs, lines, events) ==
    IF events = <<>> THEN [devices |-> devs, lines |-> lines]
    ELSE CHOOSE result \in
             {react_events(r.devices, r.lines, Tail(events)) :
                 r \in {react_devices(devs, lines, Head(events), 1)}} : TRUE

\* (a mutant) the batch size is tested off by one
collecting_off_by_one == update_queue # <<>> /\ Len(update_batch) <= batch_size

\* line 216: the condition of the collecting loop
collecting == update_queue # <<>> /\ Len(update_batch) < batch_size

\* (a mutant) the update taken from the channel is not kept
main_collect_drops ==
    /\ main_pc = "collect"
    /\ collecting
    /\ update_queue' = Tail(update_queue)
    /\ UNCHANGED <<devices, tasks, update_batch, mapped_updates, critical_events,
                   avg_temp, store_idx, main_pc, storage_queue, worker_pc,
                   worker_update, history_log, error_log, now, logged, call, probe>>

\* lines 216-219: one get_nowait of the collecting loop
main_collect ==
    /\ main_pc = "collect"
    /\ collecting
    /\ update_batch' = Append(update_batch, Head(update_queue))
    /\ update_queue' = Tail(update_queue)
    /\ UNCHANGED <<devices, tasks, mapped_updates, critical_events, avg_temp,
                   store_idx, main_pc, storage_queue, worker_pc, worker_update,
                   history_log, error_log, now, logged, call, probe>>

\* (a mutant) the batch is processed only once it is full
main_collected_waits ==
    /\ main_pc = "collect"
    /\ ~collecting
    /\ main_pc' = IF Len(update_batch) >= batch_size THEN "process" ELSE "sleep"
    /\ UNCHANGED <<devices, tasks, update_queue, update_batch, mapped_updates,
                   critical_events, avg_temp, store_idx, storage_queue, worker_pc,
                   worker_update, history_log, error_log, now, logged, call, probe>>

\* line 216 false, then line 223: the collecting loop ends
main_collected ==
    /\ main_pc = "collect"
    /\ ~collecting
    /\ main_pc' = IF update_batch # <<>> THEN "process" ELSE "sleep"
    /\ UNCHANGED <<devices, tasks, update_queue, update_batch, mapped_updates,
                   critical_events, avg_temp, store_idx, storage_queue, worker_pc,
                   worker_update, history_log, error_log, now, logged, call, probe>>

\* lines 226-255: map, filter, the reactions and the average
main_process ==
    /\ main_pc = "process"
    /\ \E mapped \in {[k \in DOMAIN update_batch |-> map_to_device_update(update_batch[k])]} :
       \E critical \in {SelectSeq(mapped, filter_critical_events)} :
       \E reacted \in {react_events(devices, << >>, critical)} :
       \E average \in {calculate_average_temperature(mapped)} :
           /\ mapped_updates' = mapped
           /\ critical_events' = critical
           /\ devices' = reacted.devices
           /\ avg_temp' = average
           /\ logged' = reacted.lines \o
                         (IF avg_temp_positive(average)
                          THEN << [level |-> "info", what |-> "average", value |-> average] >>
                          ELSE << >>)
    /\ store_idx' = 1
    /\ main_pc' = "store"
    /\ UNCHANGED <<tasks, update_queue, update_batch, storage_queue, worker_pc,
                   worker_update, history_log, error_log, now, call, probe>>

\* (a mutant) what is forwarded is read from the device when it is forwarded
main_store_live ==
    /\ main_pc = "store"
    /\ store_idx <= Len(update_batch)
    /\ LET update == update_batch[store_idx]
           device == devices[CHOOSE i \in DOMAIN devices :
                                 devices[i].device_id = update.device_id]
       IN  storage_queue' = Append(storage_queue,
               DictUpdate(send_update(device), [timestamp |-> update.timestamp]))
    /\ store_idx' = store_idx + 1
    /\ UNCHANGED <<devices, tasks, update_queue, update_batch, mapped_updates,
                   critical_events, avg_temp, main_pc, worker_pc, worker_update,
                   history_log, error_log, now, logged, call, probe>>

\* (a mutant) the batch is forwarded from its end
main_store_reversed ==
    /\ main_pc = "store"
    /\ store_idx <= Len(update_batch)
    /\ storage_queue' = Append(storage_queue, update_batch[Len(update_batch) - store_idx + 1])
    /\ store_idx' = store_idx + 1
    /\ UNCHANGED <<devices, tasks, update_queue, update_batch, mapped_updates,
                   critical_events, avg_temp, main_pc, worker_pc, worker_update,
                   history_log, error_log, now, logged, call, probe>>

\* lines 258-259: one put of the storing loop
main_store ==
    /\ main_pc = "store"
    /\ store_idx <= Len(update_batch)
    /\ storage_queue' = Append(storage_queue, update_batch[store_idx])
    /\ store_idx' = store_idx + 1
    /\ UNCHANGED <<devices, tasks, update_queue, update_batch, mapped_updates,
                   critical_events, avg_temp, main_pc, worker_pc, worker_update,
                   history_log, error_log, now, logged, call, probe>>

\* line 261: update_batch.clear(), then the await of line 263
main_clear ==
    /\ main_pc = "store"
    /\ store_idx > Len(update_batch)
    /\ update_batch' = << >>
    /\ main_pc' = "sleep"
    /\ UNCHANGED <<devices, tasks, update_queue, mapped_updates, critical_events,
                   avg_temp, store_idx, storage_queue, worker_pc, worker_update,
                   history_log, error_log, now, logged, call, probe>>

\* line 263: asyncio.sleep(0.1) is over
main_sleep ==
    /\ main_pc = "sleep"
    /\ main_pc' = "collect"
    /\ UNCHANGED <<devices, tasks, update_queue, update_batch, mapped_updates,
                   critical_events, avg_temp, store_idx, storage_queue, worker_pc,
                   worker_update, history_log, error_log, now, logged, call, probe>>

\* a KeyboardInterrupt is raised in the try block (lines 214-263)
in_try == main_pc \in {"collect", "process", "store", "sleep"}

KeyboardInterrupt ==
    /\ in_try
    /\ main_pc' = "except"
    /\ UNCHANGED <<devices, tasks, update_queue, update_batch, mapped_updates,
                   critical_events, avg_temp, store_idx, storage_queue, worker_pc,
                   worker_update, history_log, error_log, now, logged, call, probe>>

\* line 268: storage_queue.put(None)
main_put_sentinel ==
    /\ main_pc = "except"
    /\ storage_queue' = Append(storage_queue, PyNone)
    /\ main_pc' = "cancel"
    /\ UNCHANGED <<devices, tasks, update_queue, update_batch, mapped_updates,
                   critical_events, avg_temp, store_idx, worker_pc, worker_update,
                   history_log, error_log, now, logged, call, probe>>

\* lines 270-271: task.cancel() for every task
main_cancel ==
    /\ main_pc = "cancel"
    /\ tasks' = [i \in DOMAIN tasks |-> "cancelling"]
    /\ main_pc' = "gather"
    /\ UNCHANGED <<devices, update_queue, update_batch, mapped_updates,
                   critical_events, avg_temp, store_idx, storage_queue, worker_pc,
                   worker_update, history_log, error_log, now, logged, call, probe>>

\* line 274: gather returns once every task has ended with CancelledError
main_gather ==
    /\ main_pc = "gather"
    /\ tasks' = [i \in DOMAIN tasks |-> "cancelled"]
    /\ main_pc' = "return"
    /\ UNCHANGED <<devices, update_queue, update_batch, mapped_updates,
                   critical_events, avg_temp, store_idx, storage_queue, worker_pc,
                   worker_update, history_log, error_log, now, logged, call, probe>>

\* main returns, asyncio.run returns and the process exits; the daemon thread
\* of storage_worker ends with it, wherever it stands
main_return ==
    /\ main_pc = "return"
    /\ main_pc' = "exited"
    /\ UNCHANGED <<devices, tasks, update_queue, update_batch, mapped_updates,
                   critical_events, avg_temp, store_idx, storage_queue, worker_pc,
                   worker_update, history_log, error_log, now, logged, call, probe>>

(***************************************************************************)
(* The program: main, its producers and the storage worker                 *)
(***************************************************************************)
NoCall == [command |-> "", kwargs |-> {}, ret |-> FALSE]
NoProbe == [fn |-> "", arg |-> << >>, ret |-> FALSE]

\* lines 176-185 and 210-211: the queues, the thread and the locals of main
PipelineInit ==
    /\ update_queue = << >>
    /\ update_batch = << >>
    /\ mapped_updates = << >>
    /\ critical_events = << >>
    /\ avg_temp = [total |-> 0, count |-> 1]
    /\ store_idx = 1
    /\ main_pc = "collect"
    /\ storage_queue = << >>
    /\ worker_pc = "get"
    /\ worker_update = PyNone
    /\ history_log = << >>
    /\ error_log = << >>
    /\ now = 0
    /\ logged = << >>

\* main at line 213: the devices connected, one producer task per device
Init ==
    /\ devices = main_devices
    /\ tasks = [i \in DOMAIN main_devices |-> "running"]
    /\ PipelineInit
    /\ call = NoCall
    /\ probe = NoProbe

\* the steps of main and of the storage worker
Pipeline ==
    \/ main_collect
    \/ main_collected
    \/ main_process
    \/ main_store
    \/ main_clear
    \/ main_sleep
    \/ KeyboardInterrupt
    \/ main_put_sentinel
    \/ main_cancel
    \/ main_gather
    \/ main_return
    \/ storage_worker_get
    \/ storage_worker_stop
    \/ storage_worker_write
    \/ storage_worker_write_fails

Next ==
    \/ \E i \in DOMAIN devices : device_update_stream(i, MaxUpdates)
    \/ Pipeline

Spec == Init /\ [][Next]_vars

\* The scheduling the program relies on: the event loop resumes main after each
\* sleep and runs its synchronous code to the next await, and the operating
\* system keeps running the storage thread.
MainLoop ==
    \/ main_collect
    \/ main_collected
    \/ main_process
    \/ main_store
    \/ main_clear
    \/ main_sleep

StorageThread ==
    \/ storage_worker_get
    \/ storage_worker_stop
    \/ storage_worker_write
    \/ storage_worker_write_fails

\* the indices of bulb_01, thermo_01 and cam_02 in the devices of main
LiveProducers == {1, 3, 6}

NextLive ==
    \/ \E i \in LiveProducers : device_update_stream(i, MaxUpdates)
    \/ Pipeline

SpecLive == Init /\ [][NextLive]_vars /\ WF_vars(MainLoop) /\ WF_vars(StorageThread)

(***************************************************************************)
(* The collector while cam_02 floods the Update Channel (the storage       *)
(* thread is not scheduled and no interrupt arrives)                       *)
(***************************************************************************)
\* the index of cam_02 in the devices of main
FloodProducers == {6}

NextFlood ==
    \/ \E i \in FloodProducers : device_update_stream(i, MaxFlood)
    \/ MainLoop

SpecFlood == Init /\ [][NextFlood]_vars

(***************************************************************************)
(* The producers statement by statement: a tick of device_update_stream is *)
(* three steps, and a coroutine is left only where it awaits.  The storage *)
(* worker is a thread and runs at any time.                                *)
(***************************************************************************)
\* the positions of a producer between its wake-up and its next sleep
MidTick == {"tick_humidity", "tick_send"}

\* (a mutant) the producer also awaits before send_update
suspended_before_send(task) == task # "tick_humidity"

\* line 79: the producer is suspended (or has ended) only at its await
\* asyncio.sleep
suspended(task) == task \notin MidTick

\* no producer is in the middle of its synchronous code
event_loop_free == \A i \in DOMAIN tasks : suspended(tasks[i])

\* lines 79-94: the sleep is over; update_temp for a thermostat
stream_wake(i) ==
    /\ main_pc = "sleep"
    /\ event_loop_free
    /\ tasks[i] = "running"
    /\ now < MaxUpdates
    /\ now' = now + 1
    /\ IF is_connected(devices[i]) THEN
           IF devices[i].device_type = "THERMOSTAT" THEN
               \E new_temp \in drawn_temperatures(devices[i].current_temp.val,
                                                   devices[i].target_temp.val) :
                   /\ devices' = [devices EXCEPT ![i] =
                          execute_command(devices[i], "update_temp",
                              {<<"temperature", PyFloat(new_temp)>>}, now').self]
                   /\ tasks' = [tasks EXCEPT ![i] = "tick_humidity"]
           ELSE /\ tasks' = [tasks EXCEPT ![i] = "tick_send"]
                /\ UNCHANGED devices
       ELSE UNCHANGED <<devices, tasks>>
    /\ UNCHANGED <<update_queue, update_batch, mapped_updates, critical_events,
                   avg_temp, store_idx, main_pc, storage_queue, worker_pc,
                   worker_update, history_log, error_log, logged, call, probe>>

\* lines 97-100: update_humidity
stream_humidity(i) ==
    /\ tasks[i] = "tick_humidity"
    /\ \E new_humidity \in drawn_humidities(devices[i].humidity.val) :
           devices' = [devices EXCEPT ![i] =
               execute_command(devices[i], "update_humidity",
                   {<<"humidity", PyFloat(new_humidity)>>}, now).self]
    /\ tasks' = [tasks EXCEPT ![i] = "tick_send"]
    /\ UNCHANGED <<update_queue, update_batch, mapped_updates, critical_events,
                   avg_temp, store_idx, main_pc, storage_queue, worker_pc,
                   worker_update, history_log, error_log, now, logged, call, probe>>

\* lines 102-104: send_update, the timestamp and the put; then the sleep
stream_send(i) ==
    /\ tasks[i] = "tick_send"
    /\ update_queue' = Append(update_queue,
                              DictUpdate(send_update(devices[i]), [timestamp |-> now]))
    /\ tasks' = [tasks EXCEPT ![i] = "running"]
    /\ UNCHANGED <<devices, update_batch, mapped_updates, critical_events,
                   avg_temp, store_idx, main_pc, storage_queue, worker_pc,
                   worker_update, history_log, error_log, now, logged, call, probe>>

\* the steps of the coroutine main, the handler of the interrupt included
MainCoroutine ==
    \/ MainLoop
    \/ KeyboardInterrupt
    \/ main_put_sentinel
    \/ main_cancel
    \/ main_gather
    \/ main_return

\* main runs from one await to the next while every producer is suspended
main_scheduled == event_loop_free /\ MainCoroutine

NextFine ==
    \/ \E i \in LiveProducers : stream_wake(i)
    \/ \E i \in LiveProducers : stream_humidity(i)
    \/ \E i \in LiveProducers : stream_send(i)
    \/ main_scheduled
    \/ StorageThread

SpecFine == Init /\ [][NextFine]_vars

(***************************************************************************)
(* The producers started on devices that are connected later, or never     *)
(***************************************************************************)
\* lines 188-195 without the loop of lines 198-199
unconnected_devices ==
    [i \in DOMAIN main_devices |-> [main_devices[i] EXCEPT !.connected = FALSE]]

\* the devices the producers of this run are started on
StreamDevices == {1, 3, 6}

InitStream ==
    /\ devices = unconnected_devices
    /\ tasks = [i \in DOMAIN main_devices |-> "running"]
    /\ PipelineInit
    /\ call = NoCall
    /\ probe = NoProbe

\* device.connect(), called while the producers run
device_connect(i) ==
    /\ ~devices[i].connected
    /\ devices' = [devices EXCEPT ![i] = connect(devices[i])]
    /\ UNCHANGED <<pipeline_vars, call, probe>>

NextStream ==
    \/ \E i \in StreamDevices : device_connect(i)
    \/ \E i \in StreamDevices : device_update_stream(i, MaxUpdates)
    \/ Pipeline

SpecStream == InitStream /\ [][NextStream]_vars

(***************************************************************************)
(* One device of any class, constructed with any arguments and sent any    *)
(* sequence of commands                                                    *)
(***************************************************************************)
ArgValues == {0 - MaxOver, 0, 1, 50, 100, 100 + MaxOver}

\* the commands of the three classes, and one that no class knows
Commands == {"turn_on", "turn_off", "set_brightness",
             "set_target_temp", "update_temp", "update_humidity",
             "take_snapshot", "set_motion_detected", "set_battery_level",
             "reboot"}

\* the keyword arguments a caller may pass with `command`: none, the one the
\* command reads, or one it does not read
KwargsOf(command) ==
    {{}, {<<"level", PyInt(50)>>}} \cup
    (IF command = "set_brightness" THEN {{<<"brightness", PyInt(v)>>} : v \in ArgValues}
     ELSE IF command = "set_battery_level" THEN {{<<"battery_level", PyInt(v)>>} : v \in ArgValues}
     ELSE IF command \in {"set_target_temp", "update_temp"}
          THEN {{<<"temperature", PyFloat(v)>>} : v \in ArgValues}
     ELSE IF command = "update_humidity" THEN {{<<"humidity", PyFloat(v)>>} : v \in ArgValues}
     ELSE IF command = "set_motion_detected" THEN {{<<"motion", PyBool(b)>>} : b \in BOOLEAN}
     ELSE {})

ConstructedDevices ==
    {SmartBulb("bulb", "Light", "Room")}
    \cup {SmartThermostat("thermo", "Thermostat", "Room", PyFloat(20), PyFloat(20), PyFloat(h)) :
              h \in ArgValues}
    \cup {SmartCamera("cam", "Camera", "Room", PyInt(b)) : b \in ArgValues}

InitDevice ==
    /\ \E d \in ConstructedDevices : devices = << d >>
    /\ tasks = << >>
    /\ PipelineInit
    /\ call = NoCall
    /\ probe = NoProbe

\* device.execute_command(command, **kwargs)
device_execute_command ==
    \E command \in Commands : \E kwargs \in KwargsOf(command) :
        LET r == execute_command(devices[1], command, kwargs, now)
        IN  /\ devices' = << r.self >>
            /\ call' = [command |-> command, kwargs |-> kwargs, ret |-> r.ret]
            /\ UNCHANGED <<pipeline_vars, probe>>

NextDevice ==
    \/ device_connect(1)
    \/ device_execute_command

SpecDevice == InitDevice /\ [][NextDevice]_vars

(***************************************************************************)
(* The pure functions of the analytics stage, applied to any record        *)
(***************************************************************************)
ProbeValues == (0 - MaxOver)..(TEMP_THRESHOLD + 20 + MaxOver)

ProbeRecords ==
    {DeviceUpdate("dev", 1, v) :
        v \in {PyFloat(n) : n \in ProbeValues} \cup {PyInt(n) : n \in ProbeValues} \cup {PyNone}}

InitPure ==
    /\ devices = main_devices
    /\ tasks = << >>
    /\ PipelineInit
    /\ call = NoCall
    /\ probe = NoProbe

probe_filter_critical_events ==
    /\ probe.fn = NoProbe.fn
    /\ \E update \in ProbeRecords :
        /\ probe' = [fn |-> "filter_critical_events", arg |-> << update >>,
                      ret |-> filter_critical_events(update)]
        /\ UNCHANGED <<devices, pipeline_vars, call>>

\* the values of the records a batch is made of
AvgValues == {PyFloat(20), PyFloat(30), PyFloat(40), PyFloat(0 - MaxOver), PyInt(7), PyNone}

\* the batches of at most MaxBatch records
AvgBatches ==
    UNION {[1..n -> {DeviceUpdate("dev", 1, v) : v \in AvgValues}] : n \in 0..MaxBatch}

\* lines 253-255: the average of a batch and whether it is logged
probe_calculate_average_temperature ==
    /\ probe.fn = NoProbe.fn
    /\ \E updates \in AvgBatches :
        LET avg == calculate_average_temperature(updates) IN
        /\ probe' = [fn |-> "calculate_average_temperature", arg |-> updates,
                      ret |-> [avg_temp |-> avg, reported |-> avg_temp_positive(avg)]]
        /\ UNCHANGED <<devices, pipeline_vars, call>>

\* the temperatures a thermostat may stand at when a batch is processed
ReactTemps == ProbeValues \cup {100, 1000}

\* lines 235-250: the reaction to one critical thermostat record, for a
\* thermostat at any temperature
probe_react ==
    /\ probe.fn = NoProbe.fn
    /\ \E current_temp \in ReactTemps : \E value \in {TEMP_THRESHOLD + 1, 100} :
        LET device == connect(SmartThermostat("thermo", "Thermostat", "Room",
                                  PyFloat(current_temp), PyFloat(24), PyFloat(50)))
            event == DeviceUpdate("thermo", 1, PyFloat(value))
        IN  /\ probe' = [fn |-> "react", arg |-> << device, event >>,
                          ret |-> react(device, event)]
            /\ UNCHANGED <<devices, pipeline_vars, call>>

\* the records of a batch: of each device of main or of an unknown one, with
\* a value of each type on each side of its limit
EventRecords ==
    {DeviceUpdate(id, 1, v) :
        id \in {main_devices[i].device_id : i \in DOMAIN main_devices} \cup {"ghost_01"},
        v \in {PyFloat(TEMP_THRESHOLD + 1), PyFloat(20), PyInt(5), PyInt(50), PyNone}}

EventBatches == UNION {[1..n -> EventRecords] : n \in 0..MaxEvents}

\* lines 229-250: the critical events of a batch and the reactions to them
probe_react_events ==
    /\ probe.fn = NoProbe.fn
    /\ \E mapped \in EventBatches :
        /\ probe' = [fn |-> "react_events", arg |-> mapped,
                      ret |-> react_events(devices, << >>,
                                           SelectSeq(mapped, filter_critical_events))]
        /\ UNCHANGED <<devices, pipeline_vars, call>>

NextPure ==
    \/ probe_filter_critical_events
    \/ probe_calculate_average_temperature
    \/ probe_react
    \/ probe_react_events

SpecPure == InitPure /\ [][NextPure]_vars

(***************************************************************************)
(* What the statements below speak of                                      *)
(***************************************************************************)
Range(seq) == {seq[k] : k \in DOMAIN seq}

is_update(item) == item # PyNone

\* the raw updates appended to the log, in the order of the appends
log_updates == [k \in DOMAIN history_log |-> history_log[k].update]

\* the raw update the storage worker has dequeued and not yet written
in_worker == IF worker_pc = "write" THEN << worker_update >> ELSE << >>

\* the raw updates waiting in the durable-write queue
queued_updates == SelectSeq(storage_queue, is_update)

\* the raw updates forwarded by the collector, oldest first, but for those
\* whose write failed
persisted == log_updates \o in_worker \o queued_updates

forwarded == Range(persisted) \cup Range(error_log)

\* the raw updates the collector has not forwarded yet
waiting == (Range(update_batch) \cup Range(update_queue)) \ forwarded

Increasing(updates) ==
    \A i, j \in DOMAIN updates : i < j => updates[i].timestamp < updates[j].timestamp

InChannel(t) == \E u \in Range(update_queue) : u.timestamp = t
Logged(t) == \E u \in Range(log_updates) : u.timestamp = t
WriteFailed(t) == \E u \in Range(error_log) : u.timestamp = t

shut_down == main_pc \in {"cancel", "gather", "return", "exited"}

Clamp(v) == Max(0, Min(100, v))

(***************************************************************************)
(* C1..C10                                                                 *)
(***************************************************************************)
\* C1: while no interrupt arrives and no write fails, every raw update put on
\* the Update Channel is eventually appended to the log, whatever the
\* producers enqueue meanwhile (main and the storage thread being scheduled
\* fairly).
C1_NoLostUpdate ==
    \A t \in 1..MaxUpdates :
        [](InChannel(t) => <>(Logged(t) \/ WriteFailed(t) \/ ~in_try))

\* an update is logged while a later one waits in the channel
C1_Witness ==
    /\ in_try
    /\ error_log = << >>
    /\ update_queue # << >>
    /\ \E t \in 1..MaxUpdates : Logged(t)

\* C2: the updates appended to the log, then the one being written, then those
\* in the durable-write queue are in the order of their generation with none
\* twice; so are the batch and the channel; everything forwarded is older than
\* everything still waiting; and every update generated is in exactly one
\* place.
C2_OrderNoDuplicate ==
    /\ Increasing(persisted)
    /\ Increasing(error_log)
    /\ Increasing(update_batch \o update_queue)
    /\ \A x \in forwarded : \A y \in waiting : x.timestamp < y.timestamp
    /\ {u.timestamp : u \in forwarded \cup waiting} = 1..now
    /\ \A x \in Range(persisted) : \A y \in Range(error_log) : x.timestamp # y.timestamp

\* a second batch is being forwarded while the log holds an update of an
\* earlier batch
C2_Witness ==
    /\ main_pc = "store"
    /\ store_idx > 1
    /\ history_log # << >>
    /\ log_updates[1] \notin Range(update_batch)

\* C3: once the process has exited after an interrupt, every raw update that
\* was put on the durable-write queue has been written (no write having
\* failed).
C3_Durability ==
    (main_pc = "exited" /\ error_log = << >>) =>
        (queued_updates = << >> /\ in_worker = << >>)

\* C4: once the sentinel is on the durable-write queue, no raw update is left
\* in the Update Channel or unforwarded in the batch buffer.
C4_ShutdownLosesNothing ==
    shut_down => waiting = {}

\* C5: the batch buffer, the mapped records and the critical records of a
\* cycle never number more than 10, a cycle forwards at most 10 records, and
\* what is left in the channel stays in order behind the batch.
C5_BatchBounded ==
    /\ Len(update_batch) <= 10
    /\ Len(mapped_updates) <= 10
    /\ Len(critical_events) <= 10
    /\ (main_pc = "store" => store_idx - 1 <= 10)
    /\ Increasing(update_batch \o update_queue)

\* a full batch is being forwarded while more updates wait in the channel
C5_Witness ==
    /\ main_pc = "store"
    /\ Len(update_batch) = 10
    /\ Len(mapped_updates) = 10
    /\ update_queue # << >>

\* C6: a bulb's brightness and a camera's battery_level are in [0, 100] in
\* every state; right after an accepted set_brightness{b} the brightness is
\* clamp(b, 0, 100) and the bulb is on if b > 0; right after an accepted
\* set_battery_level{v} the battery_level is clamp(v, 0, 100).
C6_BrightnessBatteryClamped ==
    \A k \in DOMAIN devices :
        LET d == devices[k] IN
        /\ d.device_type = "BULB" =>
              /\ d.brightness.val \in 0..100
              /\ (call.command = "set_brightness" /\ call.ret) =>
                    LET b == KwGet(call.kwargs, "brightness").val
                    IN  /\ d.brightness = PyInt(Clamp(b))
                        /\ b > 0 => d.is_on
        /\ d.device_type = "CAMERA" =>
              /\ d.battery_level.val \in 0..100
              /\ (call.command = "set_battery_level" /\ call.ret) =>
                    d.battery_level = PyInt(Clamp(KwGet(call.kwargs, "battery_level").val))

\* a bulb was sent a brightness above 100
C6_Witness ==
    /\ devices[1].device_type = "BULB"
    /\ call.command = "set_brightness"
    /\ call.ret
    /\ KwGet(call.kwargs, "brightness").val > 100
    /\ devices[1].brightness = PyInt(100)

\* C7: right after an accepted update_humidity the thermostat's humidity is
\* in [0, 100].
C7_HumidityClamped ==
    \A k \in DOMAIN devices :
        (devices[k].device_type = "THERMOSTAT" /\ call.command = "update_humidity" /\ call.ret)
            => devices[k].humidity.val \in 0..100

\* every raw update, wherever it is, says connected = true
C8_State ==
    \A u \in Range(update_queue) \cup Range(update_batch) \cup forwarded : u.connected

\* a step changes a device that is not connected only by connecting it, and
\* puts an update on the channel only for a device that is connected
C8_Step ==
    /\ \A i \in DOMAIN devices :
          ~devices[i].connected =>
              devices'[i] \in {devices[i], connect(devices[i])}
    /\ Len(update_queue') > Len(update_queue) =>
          \E i \in DOMAIN devices :
              /\ devices[i].connected
              /\ update_queue'[Len(update_queue')].device_id = devices[i].device_id

\* C8: every raw update in the channel, the batch, the durable-write queue or
\* the log was produced while its device was connected and says so, and the
\* wake-up of a producer whose device is not connected changes no device and
\* enqueues nothing.
C8_UnconnectedNeverSends == [](C8_State) /\ [][C8_Step]_vars

\* producers have woken on devices none of which is connected, and nothing
\* was enqueued
C8_Witness ==
    /\ now = MaxUpdates
    /\ \A i \in DOMAIN devices : ~devices[i].connected
    /\ update_queue = << >>
    /\ devices = unconnected_devices

\* C9: filter_critical_events answers true exactly for a float above 30 and
\* for an int below 10.
C9_Classification ==
    probe.fn = "filter_critical_events" =>
        LET v == probe.arg[1].value
        IN  probe.ret = CASE v.kind = "float" -> v.val > 30
                          [] v.kind = "int" -> v.val < 10
                          [] OTHER -> FALSE

\* the float 30.0 was classified, and is not critical
C9_Witness ==
    /\ probe.fn = "filter_critical_events"
    /\ probe.arg[1].value = PyFloat(30)
    /\ ~probe.ret

\* C10: in every cycle, a record is among the critical ones only if its raw
\* update is a thermostat's with current_temp above 30 or a camera's with
\* battery_level below 10.
C10_CriticalIsBreach ==
    main_pc = "store" =>
        \A k \in DOMAIN update_batch :
            mapped_updates[k] \in Range(critical_events) =>
                \/ /\ update_batch[k].device_type = "THERMOSTAT"
                   /\ update_batch[k].current_temp.val > 30
                \/ /\ update_batch[k].device_type = "CAMERA"
                   /\ update_batch[k].battery_level.val < 10

(***************************************************************************)
(* C11..C20                                                                *)
(***************************************************************************)
\* the step of main that maps, filters and reacts to the batch
is_main_process == main_pc = "process" /\ main_pc' = "store"

\* the step of main that ends a cycle in which a batch was processed
is_main_clear == main_pc = "store" /\ main_pc' = "sleep"

\* the positions in the batch of the raw updates of devices[i] that say a
\* temperature above 30
hot_updates(i) ==
    {k \in DOMAIN update_batch :
        /\ update_batch[k].device_id = devices[i].device_id
        /\ update_batch[k].device_type = "THERMOSTAT"
        /\ update_batch[k].current_temp.val > 30}

\* in a cycle whose batch holds one hot update of a thermostat that is above
\* 30 when the batch is processed, the thermostat ends at 25 with target 25
\* and the update yields exactly one critical record
C11_Cooling ==
    is_main_process =>
        \A i \in DOMAIN devices :
            (/\ devices[i].device_type = "THERMOSTAT"
             /\ Cardinality(hot_updates(i)) = 1
             /\ devices[i].current_temp.val > 30) =>
                /\ devices'[i].current_temp = PyFloat(25)
                /\ devices'[i].target_temp = PyFloat(25)
                /\ \A k \in hot_updates(i) :
                      Cardinality({j \in DOMAIN critical_events' :
                          /\ critical_events'[j].device_id = update_batch[k].device_id
                          /\ critical_events'[j].timestamp = update_batch[k].timestamp
                          /\ critical_events'[j].value = update_batch[k].current_temp}) = 1

\* when the cycle ends, every raw update of its batch has been put, as it
\* was, on the durable-write queue
C11_Forwarded ==
    is_main_clear => Range(update_batch) \subseteq forwarded

RequiredArgument ==
    [BULB |-> [turn_on |-> "", turn_off |-> "", set_brightness |-> "brightness"],
     THERMOSTAT |-> [set_target_temp |-> "temperature", update_temp |-> "temperature",
                     update_humidity |-> "humidity"],
     CAMERA |-> [take_snapshot |-> "", set_motion_detected |-> "motion",
                 set_battery_level |-> "battery_level"]]

\* the call is one the class of `device` accepts
Acceptable(device, command, kwargs) ==
    /\ command \in DOMAIN RequiredArgument[device.device_type]
    /\ LET argument == RequiredArgument[device.device_type][command]
       IN  argument = "" \/ HasKey(kwargs, argument)

\* a step of the device harness that is a call of execute_command
is_execute_command == ~(~devices[1].connected /\ devices'[1].connected)

C12_Step ==
    is_execute_command =>
        /\ call'.ret = Acceptable(devices[1], call'.command, call'.kwargs)
        /\ ~Acceptable(devices[1], call'.command, call'.kwargs) => devices' = devices

\* C12: execute_command with a command the device's class does not know
\* (one of another class included), or with a known command whose required
\* argument is missing, returns false and leaves every field of the device
\* unchanged; every accepted command returns true.
C12_RejectedLeavesUntouched == [][C12_Step]_vars

\* a bulb that is on at brightness 50 was sent set_brightness without the
\* argument: the call returned false and the bulb is as it was
C12_Witness ==
    /\ devices[1].device_type = "BULB"
    /\ devices[1].is_on
    /\ devices[1].brightness = PyInt(50)
    /\ call.command = "set_brightness"
    /\ ~HasKey(call.kwargs, "brightness")
    /\ call.kwargs # {}
    /\ ~call.ret

Queued(t) == \E u \in Range(queued_updates) : u.timestamp = t

\* an update whose write failed is nowhere else, the log is in the order of
\* the forwarding, and the worker has ended only after a shutdown
C13_State ==
    /\ \A x \in Range(error_log) :
          x \notin Range(log_updates) \cup Range(queued_updates) \cup Range(in_worker)
    /\ Increasing(log_updates \o in_worker \o queued_updates)
    /\ worker_pc = "done" => shut_down

\* a failing write drops the entry and leaves the worker waiting for the next
\* one; the worker ends only by dequeuing the sentinel
C13_Step ==
    /\ Len(error_log') > Len(error_log) =>
          /\ error_log' = Append(error_log, worker_update)
          /\ worker_pc' = "get"
          /\ storage_queue' = storage_queue
          /\ history_log' = history_log
    /\ (worker_pc # "done" /\ worker_pc' = "done") =>
          /\ worker_pc = "get"
          /\ storage_queue # << >>
          /\ Head(storage_queue) = PyNone

\* C13: a failing write drops its entry (no retry, no requeue) and does not
\* end the worker: every entry still in the durable-write queue after a
\* failure is eventually appended (or fails in its turn) unless the program
\* is interrupted, the log stays in order, and the worker ends only when it
\* dequeues the sentinel.
C13_WriteFailureSurvived ==
    /\ [](C13_State)
    /\ [][C13_Step]_vars
    /\ \A t \in 1..MaxUpdates :
          []((Queued(t) /\ error_log # << >>) => <>(Logged(t) \/ WriteFailed(t) \/ ~in_try))

\* the write of the first update failed and the second one was appended
C13_Witness ==
    /\ WriteFailed(1)
    /\ Logged(2)
    /\ worker_pc = "get"
    /\ in_try

\* C14: once the interrupt is handled the sentinel is on the durable-write
\* queue (or was dequeued), nothing is behind it in the queue, and the program
\* exits only after every producer task has ended cancelled and the storage
\* worker has dequeued the sentinel and ended.
C14_GracefulShutdown ==
    /\ shut_down => (worker_pc = "done" \/ PyNone \in Range(storage_queue))
    /\ \A k \in DOMAIN storage_queue :
          storage_queue[k] = PyNone => k = Len(storage_queue)
    /\ main_pc = "exited" =>
          /\ \A i \in DOMAIN tasks : tasks[i] = "cancelled"
          /\ worker_pc = "done"

\* while a producer is in the middle of a tick, main stands at its await
C15_Exclusive ==
    \A i \in DOMAIN tasks : tasks[i] \in MidTick => main_pc = "sleep"

\* a device is written only by a step of its own producer or by the step of
\* main that reacts to the batch; nothing writes it between two steps of a
\* tick; the storage worker writes no device
C15_Step ==
    /\ \A i \in DOMAIN devices :
          devices'[i] # devices[i] =>
              \/ tasks'[i] # tasks[i] /\ main_pc' = main_pc
              \/ is_main_process /\ tasks' = tasks /\ \A j \in DOMAIN tasks : tasks[j] \notin MidTick
    /\ (worker_pc' # worker_pc \/ history_log' # history_log \/ error_log' # error_log)
          => devices' = devices

\* C15: a producer's tick on a device and the Reactive Controller's handling
\* of a batch never overlap: each runs from one await to the next with the
\* other suspended, and the storage worker writes no device field.
C15_MutationsSerialized == [](C15_Exclusive) /\ [][C15_Step]_vars

\* thermo_01, cooled by the controller after its first tick, is in the middle
\* of its second tick while the storage worker is writing
C15_Witness ==
    /\ tasks[3] = "tick_send"
    /\ devices[3].target_temp = PyFloat(COOLING_TARGET)
    /\ devices[3].current_temp.val > TEMP_THRESHOLD
    /\ worker_pc = "write"
    /\ main_pc = "sleep"

\* the positions of the float-valued records of a batch, and their sum
float_positions(updates) == {k \in DOMAIN updates : updates[k].value.kind = "float"}

RECURSIVE SumAt(_, _)
SumAt(updates, K) ==
    IF K = {} THEN 0
    ELSE LET k == CHOOSE x \in K : TRUE
         IN  updates[k].value.val + SumAt(updates, K \ {k})

\* C16: the average of a batch is the arithmetic mean of exactly its
\* float-valued records (the int-valued and null-valued ones are ignored), it
\* is 0.0 when the batch has no float-valued record, and it is reported only
\* when it is greater than 0.
C16_AverageTemperature ==
    probe.fn = "calculate_average_temperature" =>
        LET floats == float_positions(probe.arg)
            avg == probe.ret.avg_temp
        IN  /\ avg.count > 0
            /\ floats = {} => avg.total = 0
            /\ floats # {} =>
                  avg.total * Cardinality(floats) = SumAt(probe.arg, floats) * avg.count
            /\ probe.ret.reported <=> avg.total > 0

\* the floats 20.0, 30.0 and 40.0 with one int: the average is 30.0, reported
C16_Witness ==
    /\ probe.fn = "calculate_average_temperature"
    /\ probe.arg = << DeviceUpdate("dev", 1, PyFloat(20)), DeviceUpdate("dev", 1, PyFloat(30)),
                      DeviceUpdate("dev", 1, PyInt(7)), DeviceUpdate("dev", 1, PyFloat(40)) >>
    /\ probe.ret.avg_temp.total = 30 * probe.ret.avg_temp.count
    /\ probe.ret.reported

\* C17: whatever the thermostat's current_temp when it is cooled, new_temp =
\* current_temp - max(5, current_temp - 25) is below 30, the temperature set
\* is that new_temp (the override to 28 is not taken), and the thermostat
\* ends with current_temp < 30 and target_temp = 25.
C17_CoolingBelowThreshold ==
    probe.fn = "react" =>
        LET current_temp == probe.arg[1].current_temp.val
            new_temp == current_temp - Max(5, current_temp - 25)
        IN  /\ new_temp < 30
            /\ probe.ret.device.current_temp = PyFloat(new_temp)
            /\ probe.ret.device.current_temp.val < 30
            /\ probe.ret.device.target_temp = PyFloat(25)
            /\ probe.ret.lines # << >>

\* a thermostat at 1000 degrees was cooled: it stands at 25
C17_Witness ==
    /\ probe.fn = "react"
    /\ probe.arg[1].current_temp = PyFloat(1000)
    /\ probe.ret.device.current_temp = PyFloat(25)
    /\ probe.ret.device.target_temp = PyFloat(25)

hot_record(mapped, device) ==
    \E k \in DOMAIN mapped :
        /\ mapped[k].device_id = device.device_id
        /\ mapped[k].value.kind = "float"
        /\ mapped[k].value.val > 30

\* the batch holds a record of `device` that says a battery level below 10
low_record(mapped, device) ==
    \E k \in DOMAIN mapped :
        /\ mapped[k].device_id = device.device_id
        /\ mapped[k].value.kind = "int"
        /\ mapped[k].value.val < 10

\* C19: handling the critical records of a batch changes only current_temp
\* and target_temp of the thermostats a hot record names; a camera, a bulb, a
\* device no critical record names and every other field stay as they were,
\* and a record naming no known device does nothing and logs nothing.
C19_ReactionFrame ==
    probe.fn = "react_events" =>
        /\ DOMAIN probe.ret.devices = DOMAIN devices
        /\ \A i \in DOMAIN devices :
              LET before == devices[i]
                  after == probe.ret.devices[i]
              IN  IF before.device_type = "THERMOSTAT" /\ hot_record(probe.arg, before)
                  THEN /\ after = [before EXCEPT !.current_temp = after.current_temp,
                                                  !.target_temp = after.target_temp]
                       /\ after.current_temp # before.current_temp
                  ELSE after = before
        /\ \A n \in DOMAIN probe.ret.lines :
              \E i \in DOMAIN devices :
                  /\ devices[i].device_id = probe.ret.lines[n].device_id
                  /\ \/ devices[i].device_type = "THERMOSTAT" /\ hot_record(probe.arg, devices[i])
                     \/ devices[i].device_type = "CAMERA" /\ low_record(probe.arg, devices[i])

\* a hot record of thermo_01 and a critical record of an unknown device:
\* thermo_01 was cooled, and nothing else changed
C19_Witness ==
    /\ probe.fn = "react_events"
    /\ probe.arg = << DeviceUpdate("ghost_01", 1, PyInt(5)),
                      DeviceUpdate("thermo_01", 1, PyFloat(TEMP_THRESHOLD + 1)) >>
    /\ probe.ret.devices[3].current_temp # devices[3].current_temp
    /\ probe.ret.devices[4] = devices[4]
    /\ Len(probe.ret.lines) = 2

\* the collector goes from collecting to its sleep only with an empty batch;
\* the step that processes maps and classifies every update of the batch; the
\* step that ends the cycle finds every update of the batch forwarded and
\* empties the buffer
C20_Step ==
    /\ (main_pc = "collect" /\ main_pc' = "sleep") => update_batch = << >>
    /\ is_main_process =>
          /\ update_batch # << >>
          /\ update_batch' = update_batch
          /\ DOMAIN mapped_updates' = DOMAIN update_batch
          /\ \A k \in DOMAIN update_batch :
                /\ mapped_updates'[k].device_id = update_batch[k].device_id
                /\ mapped_updates'[k].timestamp = update_batch[k].timestamp
          /\ Range(critical_events') \subseteq Range(mapped_updates')
    /\ is_main_clear =>
          /\ Range(update_batch) \subseteq forwarded
          /\ update_batch' = << >>

\* C20: the collector never waits to fill a batch: a cycle that drained at
\* least one update, even fewer than 10, maps, classifies and forwards all of
\* them before its sleep, and the batch buffer is empty whenever the collector
\* is at its sleep.
C20_NoCarryOver ==
    /\ [](main_pc = "sleep" => update_batch = << >>)
    /\ [][C20_Step]_vars

\* a batch of one update was forwarded and the collector sleeps with an empty
\* buffer while a later update waits in the channel
C20_Witness ==
    /\ main_pc = "sleep"
    /\ update_batch = << >>
    /\ Len(persisted) = 1
    /\ error_log = << >>
    /\ update_queue # << >>

(***************************************************************************)
(* C21..C22                                                                *)
(***************************************************************************)
\* the raw updates with timestamp t, wherever they are: the channel, the
\* batch, the durable-write queue, the worker, the log or the failed writes
copies(t) ==
    {u \in Range(update_queue) \cup Range(update_batch) \cup Range(queued_updates)
            \cup Range(in_worker) \cup Range(log_updates) \cup Range(error_log) :
        u.timestamp = t}

\* `update` says of every field what `device` says
snapshot_of(update, device) ==
    /\ DOMAIN update = DOMAIN device \cup {"timestamp"}
    /\ \A key \in DOMAIN device : update[key] = device[key]

\* a raw update appears by the step of a producer that calls send_update,
\* which leaves the device as it is and copies its fields; from then on every
\* step leaves the update as it is, wherever it moves it
C21_Step ==
    \A t \in 1..MaxUpdates :
        /\ copies(t) # {} => copies(t)' = copies(t)
        /\ (copies(t) = {} /\ copies(t)' # {}) =>
              /\ devices' = devices
              /\ \E i \in DOMAIN devices :
                    /\ tasks[i] = "tick_send"
                    /\ \A u \in copies(t)' : snapshot_of(u, devices[i])

\* C21: send_update changes no field of the device, and a raw update keeps
\* the values the device had when it was generated: what is forwarded and
\* logged is the update the producer enqueued, whatever the Reactive
\* Controller or a later tick does to the device meanwhile.
C21_SnapshotUnchanged ==
    /\ [](\A t \in 1..MaxUpdates : Cardinality(copies(t)) <= 1)
    /\ [][C21_Step]_vars

\* the log holds an update of thermo_01 saying a temperature above 30 while
\* thermo_01, cooled by the controller and drifted by a later tick, says
\* otherwise
C21_Witness ==
    /\ \E u \in Range(log_updates) :
          /\ u.device_id = "thermo_01"
          /\ u.current_temp.val > TEMP_THRESHOLD
          /\ u.target_temp # devices[3].target_temp
          /\ u.current_temp # devices[3].current_temp
    /\ devices[3].target_temp = PyFloat(COOLING_TARGET)
    /\ now = MaxUpdates

\* C22: whatever commands a freshly constructed bulb has been given, accepted
\* or rejected, with whatever integer brightness: a bulb whose brightness is
\* above 0 is on; that is, a bulb that is off has brightness 0.
C22_BrightBulbIsOn ==
    \A k \in DOMAIN devices :
        devices[k].device_type = "BULB" =>
            /\ devices[k].brightness.val > 0 => devices[k].is_on
            /\ ~devices[k].is_on => devices[k].brightness = PyInt(0)

\* a bulb set to a brightness above the range is on, at brightness 100
C22_Witness ==
    /\ devices[1].device_type = "BULB"
    /\ call.command = "set_brightness"
    /\ HasKey(call.kwargs, "brightness")
    /\ KwGet(call.kwargs, "brightness").val > 100
    /\ devices[1].brightness = PyInt(100)
    /\ devices[1].is_on

====
